---------------------------- MODULE Spec2Model ----------------------------
(***************************************************************************)
(* Model of the model lifecycle and dispatch layer of model-lawrej:        *)
(*   - the sliding-window rate limiter of the API server,                  *)
(*   - the model handles (LlamaModel, MistralModel, GptjModel),            *)
(*   - the registry and fan-out calls of ModelManager.                     *)
(* JavaScript runs every handler to completion up to its first await on    *)
(* real I/O; an action below is one such run: the synchronous prefix of a  *)
(* call together with every continuation that becomes runnable without a   *)
(* new I/O event.                                                          *)
(***************************************************************************)
EXTENDS Integers, Sequences, FiniteSets, Bags, TLC

(***************************************************************************)
(* Bounds of the model.                                                    *)
(***************************************************************************)
\* options.windowMs and options.max of rateLimiter(options), scaled down.
windowMs == 3
max == 2
\* Date.now() ranges over 0..MaxTime.
MaxTime == 5

\* Calls (direct ones and branches of aggregate calls) suspended on backend I/O
\* at one time.
MaxTasks == 3
\* Aggregate (fan-out) calls in flight at one time.
MaxFanouts == 1
\* Calls of schedulePeriodicTraining.
MaxJobs == 1
\* Firings of one scheduled job.
MaxFirings == 2
\* Calls of schedulePeriodicTraining by a caller that schedules several jobs.
MaxSchedules == 2

Keys == {"clientA", "clientB"}

VARIABLES
    \* ---- rate limiter ----
    requests,      \* the Map ip -> array of timestamps
    now,           \* the value Date.now() returns
    admitted,      \* history: per key, every timestamp ever admitted
    rejectedSince, \* history: per key, a call was rejected since the last admit
    decision,      \* history: the last admission decision
    \* ---- registry and handles (ModelManager, *Model) ----
    config,        \* config.models: per backend "ok", "nofile", "nopath" or "undef"
    initialized,   \* ModelManager.initialized
    models,        \* ModelManager.models: name -> handle [isLoaded, ref]
    focus,         \* the handle the single-target callers address
    tasks,         \* bag of direct calls suspended on backend I/O
    fans,          \* bag of aggregate calls in flight, each with its branches
    ret,           \* history: the call that settled last, with its outcome
    \* ---- trainer (Trainer) ----
    timers,        \* the runtime's active interval timers (setInterval)
    jobs,          \* the values schedulePeriodicTraining returned, in order
    fires,         \* history: per job, the number of its firings
    cancelled      \* history: per job, the kinds of value it was cancelled with

rlVars == <<requests, now, admitted, rejectedSince, decision>>

mmVars == <<config, initialized, models, focus, tasks, fans, ret>>

trVars == <<timers, jobs, fires, cancelled>>

mmVarsButRet == <<config, initialized, models, focus, tasks, fans>>

vars == <<requests, now, admitted, rejectedSince, decision,
          config, initialized, models, focus, tasks, fans, ret,
          timers, jobs, fires, cancelled>>

NoDecision == [made |-> FALSE]

NoCall == [op |-> "none"]

\* No call has returned a value its caller has yet to take: the event loop is
\* free to run the next handler.
Idle == ret = NoCall

(***************************************************************************)
(* Rate limiter.                                                           *)
(***************************************************************************)
\* A limiter that keeps one list of timestamps for all its clients.
rlKeyShared(ip) == "clientA"

\* const ip = req.ip: the key under which the Map holds a client's list.
rlKey(ip) == ip

\* requests.get(ip) after "if (!requests.has(ip)) requests.set(ip, [])".
rlStored(ip) ==
    IF rlKey(ip) \in DOMAIN requests THEN requests[rlKey(ip)] ELSE <<>>

\* .filter(time => now - time <= windowMs): keeps the timestamp that is exactly
\* windowMs old.
rlFilterInclusive(list, t) == SelectSeq(list, LAMBDA time : t - time <= windowMs)

\* .filter(time => now - time < windowMs)
rlFilter(list, t) == SelectSeq(list, LAMBDA time : t - time < windowMs)

\* userRequests.length > max: lets one call too many through.
rlOverLimitOffByOne(userRequests) == Len(userRequests) > max

\* userRequests.length >= max
rlOverLimit(userRequests) == Len(userRequests) >= max

\* A write that is lost, as when two decisions read the same stored list.
rlWriteLost(userRequests, t) == userRequests

\* userRequests.push(now); requests.set(ip, userRequests)
rlWrite(userRequests, t) == Append(userRequests, t)

\* The decision of the middleware for a request of client ip at this moment.
rlReject(ip) == rlOverLimit(rlFilter(rlStored(ip), now))

\* What the middleware does to its own state for a request of client ip.
rlDecide(ip) ==
    LET userRequests == rlFilter(rlStored(ip), now)
        reject == rlOverLimit(userRequests)
    IN  /\ requests' =
             IF reject
             THEN [k \in DOMAIN requests \cup {rlKey(ip)} |->
                     IF k = rlKey(ip) THEN rlStored(ip) ELSE requests[k]]
             ELSE [k \in DOMAIN requests \cup {rlKey(ip)} |->
                     IF k = rlKey(ip) THEN rlWrite(userRequests, now)
                     ELSE requests[k]]
        /\ admitted' = IF reject THEN admitted
                       ELSE [admitted EXCEPT ![ip] = Append(@, now)]
        /\ rejectedSince' = [rejectedSince EXCEPT ![ip] = reject]
        /\ decision' = [made |-> TRUE, key |-> ip, at |-> now,
                        admit |-> ~reject,
                        hist |-> admitted[ip],
                        rejSince |-> rejectedSince[ip]]

\* A middleware that records the call's timestamp before it checks the limit.
rateLimiterCountsRejected(ip) ==
    LET userRequests == rlFilter(rlStored(ip), now)
        reject == rlOverLimit(userRequests)
    IN  /\ requests' = [k \in DOMAIN requests \cup {ip} |->
                          IF k = ip THEN Append(userRequests, now) ELSE requests[k]]
        /\ admitted' = IF reject THEN admitted
                       ELSE [admitted EXCEPT ![ip] = Append(@, now)]
        /\ rejectedSince' = [rejectedSince EXCEPT ![ip] = reject]
        /\ decision' = [made |-> TRUE, key |-> ip, at |-> now,
                        admit |-> ~reject,
                        hist |-> admitted[ip],
                        rejSince |-> rejectedSince[ip]]
        /\ UNCHANGED <<now, mmVars, trVars>>

\* The middleware returned by rateLimiter(options), for a request of client ip
\* to a route that dispatches nothing.
rateLimiter(ip) ==
    /\ rlDecide(ip)
    /\ UNCHANGED <<now, mmVars, trVars>>

Admit == \E ip \in Keys : rateLimiter(ip)

\* Time passes between requests.
Tick ==
    /\ Idle
    /\ now < MaxTime
    /\ now' = now + 1
    /\ UNCHANGED <<requests, admitted, rejectedSince, decision, mmVars, trVars>>

(***************************************************************************)
(* Model handles: BaseModel and its variants.                              *)
(***************************************************************************)
\* The keys of ModelManager.models, in the order init() creates them.
Order == <<"llama", "mistral", "gptj">>
Names == {Order[i] : i \in 1..Len(Order)}

\* The values of a handle's backend reference (model, pipeline or session):
\* null, or an object the backend factory made.
Null == "null"
Instance == "backend instance"

\* Error messages (error.message).
ErrNotInit == "ModelManager belum diinisialisasi, panggil init() terlebih dahulu"
ErrNotFound == "Model tidak ditemukan"
ErrPath == "Model path tidak ditemukan"
ErrBackendInit == "backend initialization failed"
ErrBackendGen == "backend generation failed"
ErrBackendNull == "TypeError: backend reference is null"
ErrConfig == "TypeError: Cannot read properties of undefined (reading 'path')"
ErrSave == "cannot write checkpoint metadata"

Ok(v) == [ok |-> TRUE, val |-> v]
Err(m) == [ok |-> FALSE, val |-> m]

\* BaseModel constructor: isLoaded = false, model = null; the variants add
\* pipeline = null (Mistral) and session = tokenizer = null (GPT-J).  ref is
\* the backend reference of the variant: model, pipeline or session.
NewHandle == [isLoaded |-> FALSE, ref |-> Null]

\* fs.existsSync(this.modelPath): the model files are put in place, or not,
\* before the process starts.
existsSync(h) == config[h] = "ok"

\* The text a backend's generation returns (opaque to this layer).
Text(h) == IF h = "gptj" THEN "Teks hasil decode dari GPT-J" ELSE "teks " \o h

\* The texts a backend may produce for a prompt: a language model returns any
\* string, among them one that reads like the record of a failure.  Two texts
\* of the LLaMA backend stand for them; GPT-J's generation is simulated and
\* decodes to one text.
Texts(h) ==
    IF h = "llama" THEN {Text(h), "ERROR: " \o ErrBackendGen} ELSE {Text(h)}

\* The values a settling backend call of task t may produce: a text matters
\* only to a generation that succeeds.
Produced(t, ok) ==
    IF t.kind = "generate" /\ ok THEN Texts(t.h) ELSE {Text(t.h)}

\* generate(prompt, options = {}): the options of a caller that passes none.
NoOptions == <<>>

\* const defaultOptions = {...} of each variant's generate(); numbers are
\* written as the literals of the source.
defaultOptions(h) ==
    IF h = "mistral"
    THEN [temperature |-> "0.7", max_new_tokens |-> "512", top_p |-> "0.95",
          top_k |-> "40", repetition_penalty |-> "1.1", do_sample |-> "true"]
    ELSE [temperature |-> "0.7", maxTokens |-> "512", topP |-> "0.95",
          topK |-> "40", repetitionPenalty |-> "1.1"]

\* { ...defaultOptions, ...options }: every key of either, the caller's value
\* where both have the key.
spread(defaults, options) ==
    [k \in DOMAIN defaults \cup DOMAIN options |->
        IF k \in DOMAIN options THEN options[k] ELSE defaults[k]]

\* const mergedOptions = { ...defaultOptions, ...options }, the second
\* argument of the backend call.
mergedOptions(h, options) == spread(defaultOptions(h), options)

\* In the records below, wrote tells whether the call assigned the handle's
\* backend reference (a new instance, or null), and work whether the handle
\* was loaded when the call did its work.  raced tells of a suspended call
\* whether a caller holding the handle called unload() on it while the call
\* was awaiting its load.

\* load() up to its await.  Every variant first checks the path; LlamaModel
\* then assigns this.model = new LLModel(...) before awaiting this.model.load(),
\* the other two await the backend factory and assign afterwards.
loadStart(hrec, h, pathExists) ==
    IF ~pathExists
    THEN [handle |-> [hrec EXCEPT !.isLoaded = FALSE], done |-> TRUE,
          outcome |-> Err(ErrPath), work |-> hrec.isLoaded, wrote |-> FALSE]
    ELSE [handle |-> IF h = "llama" THEN [hrec EXCEPT !.ref = Instance] ELSE hrec,
          done |-> FALSE,
          task |-> [kind |-> "load", h |-> h, cont |-> "return",
                    preLoaded |-> hrec.isLoaded, work |-> hrec.isLoaded,
                    wrote |-> (h = "llama"), raced |-> FALSE,
                    options |-> NoOptions]]

\* load() whose catch rethrows without resetting isLoaded.
loadFinishKeepsLoaded(hrec, h, ok) ==
    IF ok
    THEN [handle |-> [isLoaded |-> TRUE,
                      ref |-> IF h = "llama" THEN hrec.ref ELSE Instance],
          outcome |-> Ok("true"), wrote |-> (h # "llama")]
    ELSE [handle |-> hrec, outcome |-> Err(ErrBackendInit), wrote |-> FALSE]

\* load() after its await settled: isLoaded = true (and the reference assigned,
\* for Mistral and GPT-J) on success, isLoaded = false and rethrow on failure.
loadFinish(hrec, h, ok) ==
    IF ok
    THEN [handle |-> [isLoaded |-> TRUE,
                      ref |-> IF h = "llama" THEN hrec.ref ELSE Instance],
          outcome |-> Ok("true"), wrote |-> (h # "llama")]
    ELSE [handle |-> [hrec EXCEPT !.isLoaded = FALSE],
          outcome |-> Err(ErrBackendInit), wrote |-> FALSE]

\* generate() from its try block on: the backend call on the current reference.
\* A null reference raises a TypeError; GPT-J's simulated generation does not
\* suspend on I/O and returns at once.
generateCall(hrec, h) ==
    IF hrec.ref = Null
    THEN [handle |-> hrec, done |-> TRUE, outcome |-> Err(ErrBackendNull),
          work |-> hrec.isLoaded, wrote |-> FALSE]
    ELSE IF h = "gptj"
    THEN [handle |-> hrec, done |-> TRUE, outcome |-> Ok(Text(h)),
          work |-> hrec.isLoaded, wrote |-> FALSE]
    ELSE [handle |-> hrec, done |-> FALSE,
          task |-> [kind |-> "generate", h |-> h, cont |-> "return",
                    preLoaded |-> hrec.isLoaded, work |-> hrec.isLoaded,
                    wrote |-> FALSE, raced |-> FALSE, options |-> NoOptions]]

\* generate() whose catch resets isLoaded the way load()'s catch does.
generateFinishMarksFailed(hrec, h, ok, text) ==
    IF ok THEN [handle |-> hrec, outcome |-> Ok(text)]
    ELSE [handle |-> [hrec EXCEPT !.isLoaded = FALSE],
          outcome |-> Err(ErrBackendGen)]

\* generate() after its backend call settled: the text the backend produced
\* (result.text, generated_text), or the backend's error rethrown; the handle
\* is not touched.
generateFinish(hrec, h, ok, text) ==
    [handle |-> hrec,
     outcome |-> IF ok THEN Ok(text) ELSE Err(ErrBackendGen)]

\* generate() up to its first await: "if (!this.isLoaded) await this.load()".
generateStart(hrec, h, pathExists) ==
    IF ~hrec.isLoaded
    THEN LET l == loadStart(hrec, h, pathExists)
         IN  IF l.done THEN l
             ELSE [l EXCEPT !.task = [l.task EXCEPT !.cont = "generate"]]
    ELSE generateCall(hrec, h)

\* unload() that refuses a handle that is not loaded.
unloadStrict(hrec) ==
    IF hrec.isLoaded /\ hrec.ref # Null
    THEN [handle |-> [isLoaded |-> FALSE, ref |-> Null], done |-> TRUE,
          outcome |-> Ok("true"), work |-> hrec.isLoaded, wrote |-> TRUE]
    ELSE [handle |-> hrec, done |-> TRUE, outcome |-> Err("model is not loaded"),
          work |-> hrec.isLoaded, wrote |-> FALSE]

\* unload(): releases the reference when loaded, and returns true either way.
unload(hrec) ==
    IF hrec.isLoaded /\ hrec.ref # Null
    THEN [handle |-> [isLoaded |-> FALSE, ref |-> Null], done |-> TRUE,
          outcome |-> Ok("true"), work |-> hrec.isLoaded, wrote |-> TRUE]
    ELSE [handle |-> hrec, done |-> TRUE, outcome |-> Ok("true"),
          work |-> hrec.isLoaded, wrote |-> FALSE]

\* The synchronous prefix of load(), generate() or unload() on a handle.
syncCall(op, hrec, h, pathExists) ==
    CASE op = "load" -> loadStart(hrec, h, pathExists)
      [] op = "generate" -> generateStart(hrec, h, pathExists)
      [] op = "unload" -> unload(hrec)

(***************************************************************************)
(* ModelManager.                                                           *)
(***************************************************************************)

\* model names a caller may pass, as sequences of characters
NameInputs ==
    { <<"l","l","a","m","a">>, <<"L","L","a","M","A">>,
      <<"M","i","s","t","r","a","l">>, <<"g","p","t","4">>, <<>>,
      <<"c","o","n","s","t","r","u","c","t","o","r">>,
      <<"_","_","p","r","o","t","o","_","_">> }

Upper == <<"A","B","C","D","E","F","G","H","I","J","K","L","M",
           "N","O","P","Q","R","S","T","U","V","W","X","Y","Z">>
Lower == <<"a","b","c","d","e","f","g","h","i","j","k","l","m",
           "n","o","p","q","r","s","t","u","v","w","x","y","z">>

\* A lookup that compares names as they were typed.
asTyped(s) == s

\* String.prototype.toLowerCase, character by character.
toLowerCase(s) ==
    [i \in 1..Len(s) |->
        IF \E j \in 1..Len(Upper) : Upper[j] = s[i]
        THEN Lower[CHOOSE j \in 1..Len(Upper) : Upper[j] = s[i]]
        ELSE s[i]]

RECURSIVE Str(_)
\* The string a sequence of characters spells.
Str(s) == IF s = <<>> THEN "" ELSE s[1] \o Str(Tail(s))

\* this.models = {} is a plain object: a key it does not own is looked up on
\* Object.prototype, whose members are functions or objects (truthy).
ObjectPrototypeKeys ==
    {"constructor", "__proto__", "toString", "toLocaleString", "valueOf",
     "hasOwnProperty", "isPrototypeOf", "propertyIsEnumerable"}

\* this.models[key]
lookup(key) ==
    IF key \in DOMAIN models THEN [found |-> TRUE, handle |-> TRUE, name |-> key]
    ELSE IF key \in ObjectPrototypeKeys
    THEN [found |-> TRUE, handle |-> FALSE, name |-> key]
    ELSE [found |-> FALSE]

\* init(): constructs the three handles in order; a constructor given an
\* undefined configuration throws, which leaves the handles built so far in
\* this.models and initialized = false.  Every caller in the repository calls
\* init() at process start or under "if (!modelManager.initialized)".
init ==
    /\ Idle
    /\ ~initialized
    /\ LET bad == {i \in 1..Len(Order) : config[Order[i]] = "undef"}
           built == {Order[i] : i \in {j \in 1..Len(Order) : \A b \in bad : j < b}}
       IN  /\ models' = [n \in DOMAIN models \cup built |->
                           IF n \in built THEN NewHandle ELSE models[n]]
           /\ initialized' = (bad = {})
           /\ ret' = [op |-> "init", init |-> initialized,
                      registered |-> DOMAIN models, constructed |-> built,
                      outcome |-> IF bad = {} THEN Ok("true") ELSE Err(ErrConfig)]
    /\ UNCHANGED <<config, focus, tasks, fans, rlVars, trVars>>

\* getModel(modelName): the outcome is an error or the object found.
getModel(modelName) ==
    IF ~initialized THEN Err(ErrNotInit)
    ELSE LET m == lookup(Str(toLowerCase(modelName)))
         IN  IF ~m.found THEN Err(ErrNotFound)
             ELSE [ok |-> TRUE, val |-> m.name, handle |-> m.handle]

\* getAllModels()
getAllModels ==
    IF ~initialized THEN Err(ErrNotInit) ELSE [ok |-> TRUE, val |-> DOMAIN models]

\* getModelInfo() without the initialization check.
getModelInfoUnchecked ==
    [ok |-> TRUE, val |-> [n \in DOMAIN models |-> models[n].isLoaded]]

\* getModelInfo(): per handle its getInfo(), of which isLoaded is the state.
getModelInfo ==
    IF ~initialized THEN Err(ErrNotInit)
    ELSE [ok |-> TRUE, val |-> [n \in DOMAIN models |-> models[n].isLoaded]]

GetModel ==
    /\ Idle
    /\ \E modelName \in NameInputs :
         ret' = [op |-> "getModel", arg |-> modelName, init |-> initialized,
                 registered |-> DOMAIN models, outcome |-> getModel(modelName)]
    /\ UNCHANGED <<config, initialized, models, focus, tasks, fans, rlVars, trVars>>

GetAllModels ==
    /\ Idle
    /\ ret' = [op |-> "getAllModels", init |-> initialized,
               outcome |-> getAllModels]
    /\ UNCHANGED <<config, initialized, models, focus, tasks, fans, rlVars, trVars>>

GetModelInfo ==
    /\ Idle
    /\ ret' = [op |-> "getModelInfo", init |-> initialized,
               outcome |-> getModelInfo]
    /\ UNCHANGED <<config, initialized, models, focus, tasks, fans, rlVars, trVars>>

(***************************************************************************)
(* Aggregate calls: generateFromAllModels, loadAllModels, unloadAllModels. *)
(***************************************************************************)
FanOps == {"generate", "load", "unload"}

AllOp(op) ==
    CASE op = "generate" -> "generateFromAllModels"
      [] op = "load" -> "loadAllModels"
      [] op = "unload" -> "unloadAllModels"

Extend(f, k, v) == [x \in DOMAIN f \cup {k} |-> IF x = k THEN v ELSE f[x]]

\* A .catch handler that records nothing for the failed handle.
collectDropsError(results, op, name, outcome) ==
    IF outcome.ok
    THEN Extend(results, name, IF op = "generate" THEN outcome.val ELSE "success")
    ELSE results

\* Handlers that replace the result map by the entry of their own handle.
collectOverwrites(results, op, name, outcome) ==
    IF outcome.ok
    THEN Extend(<<>>, name, IF op = "generate" THEN outcome.val ELSE "success")
    ELSE Extend(<<>>, name, "ERROR: " \o outcome.val)

\* The .then / .catch handlers attached to one handle's promise:
\* results[name] = text (or 'success'), or results[name] = `ERROR: ${message}`.
collect(results, op, name, outcome) ==
    IF outcome.ok
    THEN Extend(results, name, IF op = "generate" THEN outcome.val ELSE "success")
    ELSE Extend(results, name, "ERROR: " \o outcome.val)

RECURSIVE collectAll(_, _, _, _)
\* The handlers of the handles of ns (a sequence) that settled, applied in order.
collectAll(results, op, ns, outcomes) ==
    IF ns = <<>> THEN results
    ELSE collectAll(IF ns[1] \in DOMAIN outcomes
                    THEN collect(results, op, ns[1], outcomes[ns[1]])
                    ELSE results,
                    op, Tail(ns), outcomes)

\* What the aggregate call returns once Promise.all resolved; the caller
\* adds the handle whose branch settled last (Null when none was awaited).
aggregate(fr) ==
    [op |-> AllOp(fr.op), init |-> fr.init, names |-> fr.names,
     outcome |-> [ok |-> TRUE, val |-> fr.results], out |-> fr.out]

\* What is known of a call on handle h when it returns (the caller adds the
\* handle as it was before the call's last step, before, and the response of
\* the route that made the call, reply): its outcome, whether
\* the handle was loaded when the call was made (preLoaded), when its work ran
\* (work) and when it returned (postLoaded), and whether the call assigned the
\* handle's backend reference.
returned(op, h, outcome, preLoaded, work, post, wrote) ==
    [op |-> op, h |-> h, outcome |-> outcome, preLoaded |-> preLoaded,
     work |-> work, postLoaded |-> post.isLoaded, wrote |-> wrote]

\* The call suspended as t runs on after the backend I/O it awaits settled:
\* load() finishes, a generate() that was loading goes on to its backend call,
\* a generate() that was generating returns the text or rethrows.
resume(hrec, t, ok, text) ==
    IF t.kind = "load"
    THEN LET l == loadFinish(hrec, t.h, ok)
             g == generateCall(l.handle, t.h)
             wrote == t.wrote \/ l.wrote
         IN  IF t.cont = "generate" /\ ok
             THEN IF g.done
                  THEN [handle |-> g.handle, done |-> TRUE, op |-> "generate",
                        outcome |-> g.outcome, preLoaded |-> t.preLoaded,
                        work |-> g.work, wrote |-> wrote]
                  ELSE [handle |-> g.handle, done |-> FALSE,
                        task |-> [g.task EXCEPT !.preLoaded = t.preLoaded,
                                                !.wrote = wrote,
                                                !.raced = t.raced,
                                                !.options = t.options]]
             ELSE [handle |-> l.handle, done |-> TRUE,
                   op |-> IF t.cont = "generate" THEN "generate" ELSE "load",
                   outcome |-> l.outcome, preLoaded |-> t.preLoaded,
                   work |-> t.work, wrote |-> wrote]
    ELSE LET g == generateFinish(hrec, t.h, ok, text)
         IN  [handle |-> g.handle, done |-> TRUE, op |-> "generate",
              outcome |-> g.outcome, preLoaded |-> t.preLoaded,
              work |-> t.work, wrote |-> t.wrote]

RECURSIVE branchesOf(_, _)
\* The branches of the aggregate calls of S (the elements of bag B) in flight.
branchesOf(S, B) ==
    IF S = {} THEN 0
    ELSE LET fr == CHOOSE x \in S : TRUE
         IN  CopiesIn(fr, B) * Cardinality(DOMAIN fr.pending)
               + branchesOf(S \ {fr}, B)

\* Calls suspended on backend I/O.
Suspended == BagCardinality(tasks) + branchesOf(BagToSet(fans), fans)

\* An aggregate call that does not check this.initialized.
fanOutGuardMissing == TRUE

\* if (!this.initialized) throw ..., the first statement of an aggregate call.
fanOutGuard == initialized

\* A loop that awaits each handle's capability before it calls the next
\* one's: only the first handle's has started when the loop first waits.
fanOutOnSequential(reg, op, inited) ==
    LET names == DOMAIN reg
        inOrder == SelectSeq(Order, LAMBDA n : n \in names)
        first == IF inOrder = <<>> THEN {} ELSE {inOrder[1]}
        r(n) == syncCall(op, reg[n], n, existsSync(n))
        pending == {n \in first : ~r(n).done}
        outcomes == [n \in first \ pending |-> r(n).outcome]
    IN  [models |-> [n \in names |-> IF n \in first THEN r(n).handle ELSE reg[n]],
         fr |-> [op |-> op, init |-> inited, names |-> names,
                 results |-> collectAll(<<>>, op, Order, outcomes),
                 out |-> outcomes,
                 pending |-> [n \in pending |-> r(n).task]]]

\* The loop of an aggregate call over the registry reg: the handles after
\* every handle's capability ran to its first await, and the call's record
\* (results so far, branches pending).
fanOutOn(reg, op, inited) ==
    LET names == DOMAIN reg
        r(n) == syncCall(op, reg[n], n, existsSync(n))
        pending == {n \in names : ~r(n).done}
        outcomes == [n \in names \ pending |-> r(n).outcome]
    IN  [models |-> [n \in names |-> r(n).handle],
         fr |-> [op |-> op, init |-> inited, names |-> names,
                 results |-> collectAll(<<>>, op, Order, outcomes),
                 out |-> outcomes,
                 pending |-> [n \in pending |-> r(n).task]]]

\* A join that resumes as soon as anything has settled (Promise.race).
promiseRace(pending) == TRUE

\* await Promise.all(promises), every promise of which resolves (each has its
\* .catch): resumes when no branch is pending.
promiseAll(pending) == DOMAIN pending = {}

\* The loop over Object.entries(this.models) up to "await Promise.all": every
\* handle's capability is called in turn and runs to its first await; the call
\* returns at once when no branch is left pending.
FanOut(op) ==
    /\ Idle
    /\ IF ~fanOutGuard
       THEN /\ ret' = [op |-> AllOp(op), init |-> initialized,
                       names |-> DOMAIN models, outcome |-> Err(ErrNotInit)]
            /\ UNCHANGED <<models, fans>>
       ELSE LET f == fanOutOn(models, op, initialized)
            IN  /\ models' = f.models
                /\ IF promiseAll(f.fr.pending)
                   THEN /\ ret' = aggregate(f.fr) @@ [last |-> Null]
                        /\ UNCHANGED fans
                   ELSE /\ BagCardinality(fans) < MaxFanouts
                        /\ Suspended + Cardinality(DOMAIN f.fr.pending) <= MaxTasks
                        /\ fans' = fans (+) SetToBag({f.fr})
                        /\ UNCHANGED ret
    /\ UNCHANGED <<config, initialized, focus, tasks, rlVars, trVars>>

GenerateFromAllModels == FanOut("generate")
LoadAllModels == FanOut("load")
UnloadAllModels == FanOut("unload")

\* The backend I/O the branch of handle n of the aggregate call fr awaits
\* settles.  When the branch is done its .then / .catch handler runs, and
\* "await Promise.all(promises)" resumes once no branch is pending.
SettleBranch(fr, n, ok, text) ==
    /\ Idle
    /\ BagIn(fr, fans)
    /\ n \in DOMAIN fr.pending
    /\ LET r == resume(models[n], fr.pending[n], ok, text)
           others == fans (-) SetToBag({fr})
           fr2 == IF r.done
                  THEN [fr EXCEPT
                          !.results = collect(fr.results, fr.op, n, r.outcome),
                          !.out = Extend(fr.out, n, r.outcome),
                          !.pending = [m \in DOMAIN fr.pending \ {n} |-> fr.pending[m]]]
                  ELSE [fr EXCEPT !.pending[n] = r.task]
       IN  /\ models' = [models EXCEPT ![n] = r.handle]
           /\ IF promiseAll(fr2.pending)
              THEN /\ fans' = others
                   /\ ret' = aggregate(fr2) @@ [last |-> n]
              ELSE /\ fans' = others (+) SetToBag({fr2})
                   /\ UNCHANGED ret
    /\ UNCHANGED <<config, initialized, focus, tasks, rlVars, trVars>>

BranchSettles ==
    \E fr \in BagToSet(fans) : \E n \in DOMAIN fr.pending : \E ok \in BOOLEAN :
        \E text \in Produced(fr.pending[n], ok) : SettleBranch(fr, n, ok, text)

\* error.message.includes('tidak ditemukan'), over the messages of this layer.
includesTidakDitemukan(message) == message \in {ErrNotFound, ErrPath}

\* A route that answers a failed call the way an aggregate call records a
\* failed branch.
routeReplyRecordsError(op, h, outcome) ==
    [code |-> 200, status |-> "success",
     data |-> [model |-> h,
               result |-> IF outcome.ok THEN outcome.val
                          ELSE "ERROR: " \o outcome.val]]

\* The single-model branch of the routes /api/generate/:model,
\* /api/models/:model/load and /api/models/:model/unload: the response to the
\* value or the error of the handle's call.
routeReply(op, h, outcome) ==
    IF outcome.ok
    THEN [code |-> 200, status |-> "success",
          data |-> [model |-> h,
                    result |-> IF op = "generate" THEN outcome.val ELSE "success"]]
    ELSE [code |-> IF includesTidakDitemukan(outcome.val) THEN 404 ELSE 500,
          status |-> "error", message |-> outcome.val]

(***************************************************************************)
(* Calls on one handle obtained from getModel (the single-target routes    *)
(* of the API and the trainer).                                            *)
(***************************************************************************)
\* The calls in flight once unload() ran on handle h: those awaiting the load
\* of h have seen an unload() go by.
unloadedMeanwhile(B, h) ==
    LET m(t) == IF t.h = h /\ t.kind = "load" THEN [t EXCEPT !.raced = TRUE]
                ELSE t
        n(x) == IF x \in DOMAIN B THEN B[x] ELSE 0
    IN  [x \in {m(t) : t \in BagToSet(B)} |->
            IF m(x) = x /\ x.h = h /\ x.kind = "load"
            THEN n(x) + n([x EXCEPT !.raced = FALSE])
            ELSE n(x)]

Call(op, h) ==
    /\ Idle
    /\ initialized
    /\ h \in DOMAIN models
    /\ LET r == syncCall(op, models[h], h, existsSync(h))
       IN  /\ models' = [models EXCEPT ![h] = r.handle]
           /\ IF r.done
              THEN /\ ret' = returned(op, h, r.outcome, models[h].isLoaded, r.work,
                                     r.handle, r.wrote)
                               @@ [before |-> models[h],
                                   reply |-> routeReply(op, h, r.outcome)]
                   /\ tasks' = IF op = "unload" THEN unloadedMeanwhile(tasks, h)
                               ELSE tasks
              ELSE /\ Suspended < MaxTasks
                   /\ tasks' = tasks (+) SetToBag({r.task})
                   /\ UNCHANGED ret
    /\ UNCHANGED <<config, initialized, focus, fans, rlVars, trVars>>

Load == Call("load", focus)
Generate == Call("generate", focus)
Unload == Call("unload", focus)

\* train(), evaluate() and save() of every variant: they do their (simulated)
\* work at once, without looking at isLoaded; only save() can fail, on a file
\* system error.
capability(op, hrec, ioOk) ==
    [handle |-> hrec, work |-> hrec.isLoaded, wrote |-> FALSE,
     outcome |-> IF op = "save" /\ ~ioOk THEN Err(ErrSave) ELSE Ok(op)]

Capability(op, h) ==
    /\ Idle
    /\ initialized
    /\ h \in DOMAIN models
    /\ \E ioOk \in (IF op = "save" THEN BOOLEAN ELSE {TRUE}) :
         LET r == capability(op, models[h], ioOk)
         IN  /\ models' = [models EXCEPT ![h] = r.handle]
             /\ ret' = returned(op, h, r.outcome, models[h].isLoaded, r.work,
                               r.handle, r.wrote) @@ [before |-> models[h]]
    /\ UNCHANGED <<config, initialized, focus, tasks, fans, rlVars, trVars>>

Train == Capability("train", focus)
Evaluate == Capability("evaluate", focus)
Save == Capability("save", focus)

\* The options the call suspended as t handed to its backend's generation by
\* the time it returned as r: nothing (<<>>) when it never got to the backend
\* call (its load failed, or the reference was null).
handedBy(t, r) ==
    IF t.kind = "generate" \/ (r.op = "generate" /\ r.outcome.ok)
    THEN mergedOptions(t.h, t.options)
    ELSE <<>>

\* generate(prompt, options) on handle h by a caller that passes options.
GenerateWith(h, options) ==
    /\ Idle
    /\ initialized
    /\ h \in DOMAIN models
    /\ LET r == syncCall("generate", models[h], h, existsSync(h))
       IN  /\ models' = [models EXCEPT ![h] = r.handle]
           /\ IF r.done
              THEN /\ ret' = returned("generate", h, r.outcome, models[h].isLoaded,
                                     r.work, r.handle, r.wrote)
                               @@ [before |-> models[h], options |-> options,
                                   handed |-> IF r.outcome.ok
                                              THEN mergedOptions(h, options)
                                              ELSE <<>>,
                                   reply |-> routeReply("generate", h, r.outcome)]
                   /\ UNCHANGED tasks
              ELSE /\ Suspended < MaxTasks
                   /\ tasks' = tasks (+) SetToBag({[r.task EXCEPT
                                                      !.options = options]})
                   /\ UNCHANGED ret
    /\ UNCHANGED <<config, initialized, focus, fans, rlVars, trVars>>

\* The options callers pass: none, one key, two keys.
OptionInputs ==
    { NoOptions,
      [temperature |-> "0.2"],
      [maxTokens |-> "16", topP |-> "0.5"] }

GenerateOptions == \E options \in OptionInputs : GenerateWith(focus, options)

\* The backend I/O the direct call suspended as t awaits settles.
Settle(t, ok, text) ==
    /\ Idle
    /\ BagIn(t, tasks)
    /\ LET r == resume(models[t.h], t, ok, text)
           rest == tasks (-) SetToBag({t})
       IN  /\ models' = [models EXCEPT ![t.h] = r.handle]
           /\ IF r.done
              THEN /\ tasks' = rest
                   /\ ret' = returned(r.op, t.h, r.outcome, r.preLoaded, r.work,
                                     r.handle, r.wrote)
                               @@ [before |-> models[t.h], raced |-> t.raced,
                                   options |-> t.options,
                                   handed |-> handedBy(t, r),
                                   reply |-> routeReply(r.op, t.h, r.outcome)]
              ELSE /\ tasks' = rest (+) SetToBag({r.task})
                   /\ UNCHANGED ret
    /\ UNCHANGED <<config, initialized, focus, fans, rlVars, trVars>>

BackendSettles ==
    \E t \in BagToSet(tasks) : \E ok \in BOOLEAN :
        \E text \in Produced(t, ok) : Settle(t, ok, text)

\* The caller takes the value or the error of the call that just returned
\* (res.json(...) in the API routes).  ret describes a call at the moment it
\* returns only: the step after a return is this one.
Respond ==
    /\ ret # NoCall
    /\ ret' = NoCall
    /\ UNCHANGED <<config, initialized, models, focus, tasks, fans, rlVars, trVars>>

(***************************************************************************)
(* Trainer: training data, trainModel, periodic training.                  *)
(***************************************************************************)
ErrReaddir == "ENOENT: no such file or directory, scandir"
ErrParse == "SyntaxError: Unexpected token in JSON"
ErrPrepare == "TypeError: Cannot read properties of null (reading 'input')"
ErrNotFunction == "TypeError: model.train is not a function"

\* Training examples as JSON.parse yields them: objects with input/output
\* or prompt/completion members, or null.
JsonNull == [null |-> TRUE]
Example1 == [input |-> "q1", output |-> "a1"]
Example2 == [prompt |-> "q2", completion |-> "a2"]

\* A file of the data directory: its name ends in .json or not, and its
\* content parses to an array of examples or does not parse.
File(json, parses, data) == [json |-> json, parses |-> parses, data |-> data]

\* The data directory as one firing or call finds it.
DirChoices ==
    { [readable |-> FALSE, entries |-> <<>>],
      [readable |-> TRUE, entries |-> <<>>],
      [readable |-> TRUE, entries |-> <<File(FALSE, TRUE, <<Example1>>)>>],
      [readable |-> TRUE, entries |-> <<File(TRUE, TRUE, <<Example1, Example2>>)>>],
      [readable |-> TRUE, entries |-> <<File(TRUE, TRUE, <<Example1>>),
                                        File(FALSE, FALSE, <<>>),
                                        File(TRUE, TRUE, <<Example2, Example1>>)>>],
      [readable |-> TRUE, entries |-> <<File(TRUE, TRUE, <<Example1>>),
                                        File(TRUE, FALSE, <<>>)>>],
      [readable |-> TRUE, entries |-> <<File(TRUE, TRUE, <<Example1, JsonNull>>)>>],
      [readable |-> TRUE, entries |-> <<File(TRUE, TRUE, <<>>)>>] }

\* The training data a direct caller of trainModel passes.
DataInputs == { <<>>, <<Example1, Example2>>, <<Example1, JsonNull>> }

\* The model types a caller of trainModel passes.
SelectorInputs ==
    { <<"a","l","l">>, <<"A","l","l">>, <<"m","i","s","t","r","a","l">>,
      <<"g","p","t","4">>, <<"c","o","n","s","t","r","u","c","t","o","r">> }

\* The model types a caller of schedulePeriodicTraining passes.
ScheduleInputs ==
    { <<"A","l","l">>, <<"m","i","s","t","r","a","l">>, <<"g","p","t","4">> }

endsWithJson(file) == file.json

\* findTrainingDataFiles(): the .json entries of the data directory, in the
\* directory's order; readdirSync's error is rethrown.
findTrainingDataFiles(dir) ==
    IF ~dir.readable THEN Err(ErrReaddir)
    ELSE Ok(SelectSeq(dir.entries, endsWithJson))

\* loadTrainingData(filePath)
loadTrainingData(file) ==
    IF ~file.parses THEN Err(ErrParse) ELSE Ok(file.data)

\* A loop that assigns mergedData = data: the last file's examples replace
\* those merged so far.
mergeFromKeepsLast(files, mergedData) ==
    IF files = <<>> THEN Ok(mergedData)
    ELSE loadTrainingData(files[Len(files)])

RECURSIVE mergeFrom(_, _)
\* The loop of mergeTrainingData: mergedData = mergedData.concat(data), file
\* by file; the first file that fails to load ends it with that error.
mergeFrom(files, mergedData) ==
    IF files = <<>> THEN Ok(mergedData)
    ELSE LET data == loadTrainingData(Head(files))
         IN  IF ~data.ok THEN data
             ELSE mergeFrom(Tail(files), mergedData \o data.val)

mergeTrainingData(files) == mergeFrom(files, <<>>)

\* item.a || item.b || ''
member(item, a, b) ==
    IF a \in DOMAIN item THEN item[a]
    ELSE IF b \in DOMAIN item THEN item[b] ELSE ""

\* prepareTrainingData(data, modelType): data.map(item => ...); reading a
\* member of null throws.
prepareTrainingData(data) ==
    IF \E i \in 1..Len(data) : data[i] = JsonNull THEN Err(ErrPrepare)
    ELSE Ok([i \in 1..Len(data) |->
               [input |-> member(data[i], "input", "prompt"),
                output |-> member(data[i], "output", "completion")]])

\* modelManager.init() as trainModel calls it, on a registry reg built from
\* config: the result is the registry afterwards and the outcome.
initOf(reg) ==
    LET bad == {i \in 1..Len(Order) : config[Order[i]] = "undef"}
        built == {Order[i] : i \in {j \in 1..Len(Order) : \A b \in bad : j < b}}
    IN  [models |-> [n \in DOMAIN reg \cup built |->
                       IF n \in built THEN NewHandle ELSE reg[n]],
         initialized |-> (bad = {}), built |-> built,
         outcome |-> IF bad = {} THEN Ok("true") ELSE Err(ErrConfig)]

\* Object.entries(this.models): the registered names in insertion order.
entries(reg) == SelectSeq(Order, LAMBDA n : n \in DOMAIN reg)

RECURSIVE trainEach(_, _, _, _)
\* The loop of trainModel for 'all': per handle, prepare the data and await
\* its train(); nothing in the loop catches, so the first failure ends it
\* with results of the handles before it discarded.  events lists, in order,
\* the calls of train() and the moments the loop got their values.
trainEach(names, reg, trainingData, results) ==
    IF names = <<>>
    THEN [outcome |-> Ok(results), trained |-> DOMAIN results, events |-> <<>>]
    ELSE LET preparedData == prepareTrainingData(trainingData)
         IN  IF ~preparedData.ok
             THEN [outcome |-> preparedData, trained |-> DOMAIN results,
                   events |-> <<>>]
             ELSE LET r == capability("train", reg[Head(names)], TRUE)
                      here == << <<"start", Head(names)>>,
                                 <<"settle", Head(names)>> >>
                  IN  IF ~r.outcome.ok
                      THEN [outcome |-> r.outcome,
                            trained |-> DOMAIN results \cup {Head(names)},
                            events |-> here]
                      ELSE LET rest == trainEach(Tail(names), reg, trainingData,
                                          Extend(results, Head(names), r.outcome))
                           IN  [rest EXCEPT !.events = here \o @]

\* The single-handle branch of trainModel: getModel, prepare, train.
trainOne(modelType, reg, trainingData) ==
    LET key == Str(toLowerCase(modelType))
    IN  IF key \notin DOMAIN reg /\ key \notin ObjectPrototypeKeys
        THEN [outcome |-> Err(ErrNotFound), trained |-> {}, events |-> <<>>]
        ELSE LET preparedData == prepareTrainingData(trainingData)
             IN  IF ~preparedData.ok
                 THEN [outcome |-> preparedData, trained |-> {}, events |-> <<>>]
                 ELSE IF key \notin DOMAIN reg
                 THEN [outcome |-> Err(ErrNotFunction), trained |-> {},
                       events |-> <<>>]
                 ELSE [outcome |-> capability("train", reg[key], TRUE).outcome,
                       trained |-> {key},
                       events |-> << <<"start", key>>, <<"settle", key>> >>]

isAll(modelType) == Str(toLowerCase(modelType)) = "all"

\* A caller that calls init() whether or not the registry is initialized.
needsInitAlways == TRUE

\* if (!this.modelManager.initialized), the guard of every call of init()
\* after process start.
needsInit == ~initialized

\* trainModel(modelType, trainingData): initializes the registry if needed,
\* then trains every handle or the one named; catch rethrows the error.
\* constructed names the handles the call constructed.
trainModel(modelType, trainingData) ==
    LET i == IF ~needsInit
             THEN [models |-> models, initialized |-> TRUE, built |-> {},
                   outcome |-> Ok("true")]
             ELSE initOf(models)
    IN  IF ~i.outcome.ok
        THEN [models |-> i.models, initialized |-> i.initialized,
              constructed |-> i.built,
              outcome |-> i.outcome, trained |-> {}, events |-> <<>>]
        ELSE LET r == IF isAll(modelType)
                      THEN trainEach(entries(i.models), i.models, trainingData, <<>>)
                      ELSE trainOne(modelType, i.models, trainingData)
             IN  [models |-> i.models, initialized |-> i.initialized,
                  constructed |-> i.built,
                  outcome |-> r.outcome, trained |-> r.trained,
                  events |-> r.events]

TrainModel ==
    /\ Idle
    /\ \E modelType \in SelectorInputs : \E trainingData \in DataInputs :
         \E r \in {trainModel(modelType, trainingData)} :
             /\ models' = r.models
             /\ initialized' = r.initialized
             /\ ret' = [op |-> "trainModel", arg |-> modelType,
                        data |-> trainingData, init |-> initialized,
                        names |-> DOMAIN r.models, trained |-> r.trained,
                        events |-> r.events,
                        registered |-> DOMAIN models,
                        constructed |-> r.constructed,
                        outcome |-> r.outcome]
    /\ UNCHANGED <<config, focus, tasks, fans, rlVars, trVars>>

\* setInterval's return value, and what clearInterval does with its argument:
\* a Timeout object (or its id) is removed from the active timers, any other
\* value is ignored.
Timeout(id) == [kind |-> "Timeout", id |-> id]

\* clearInterval that removes nothing.
clearIntervalIgnores(arg) == timers

clearInterval(arg) ==
    IF arg.kind = "Timeout" THEN timers \ {arg.id} ELSE timers

\* schedulePeriodicTraining(modelType, interval): the value it returns.
Job(intervalId, modelType) ==
    [kind |-> "job", intervalId |-> intervalId, modelType |-> modelType]

\* A scheduler that keeps one timer for all its jobs: a later job gets the
\* timer of the first.
setIntervalShared == IF jobs = <<>> THEN Len(jobs) + 1 ELSE jobs[1].intervalId.id

\* setInterval(callback, interval): a timer of its own for every call.
setInterval == Len(jobs) + 1

schedulePeriodicTraining(modelType) ==
    /\ Idle
    /\ LET job == Job(Timeout(setInterval), modelType)
       IN  /\ timers' = timers \cup {job.intervalId.id}
           /\ jobs' = Append(jobs, job)
           /\ fires' = Append(fires, 0)
           /\ cancelled' = Append(cancelled, {})
           /\ ret' = [op |-> "schedulePeriodicTraining", outcome |-> Ok(job)]
    /\ UNCHANGED <<mmVarsButRet, rlVars>>

Schedule ==
    /\ Len(jobs) < MaxJobs
    /\ \E modelType \in ScheduleInputs : schedulePeriodicTraining(modelType)

\* A caller that schedules the training of all models more than once.
ScheduleAll ==
    /\ Len(jobs) < MaxSchedules
    /\ schedulePeriodicTraining(<<"a","l","l">>)

\* cancelPeriodicTraining(intervalId): clearInterval on the argument as given,
\* then true.
cancelPeriodicTraining(j, arg) ==
    /\ Idle
    /\ timers' = clearInterval(arg)
    /\ cancelled' = [cancelled EXCEPT ![j] = @ \cup {arg.kind}]
    /\ ret' = [op |-> "cancelPeriodicTraining", job |-> j, arg |-> arg,
               outcome |-> Ok("true")]
    /\ UNCHANGED <<jobs, fires, mmVarsButRet, rlVars>>

\* A caller cancels job j with the value schedulePeriodicTraining returned
\* or with that value's intervalId.
Cancel ==
    \E j \in 1..Len(jobs) : \E arg \in {jobs[j], jobs[j].intervalId} :
        cancelPeriodicTraining(j, arg)

\* A test for the skip that never skips.
noFilesNever(files) == FALSE

\* files.length === 0
noFiles(files) == Len(files) = 0

\* The body of the interval callback inside its try: discovery, the skip,
\* merge, trainModel.
firingBody(modelType, dir) ==
    LET same == [models |-> models, initialized |-> initialized, trained |-> {},
                 constructed |-> {}]
        files == findTrainingDataFiles(dir)
    IN  IF ~files.ok
        THEN same @@ [step |-> "discover", outcome |-> files, files |-> <<>>,
                      merged |-> Null]
        ELSE IF noFiles(files.val)
        THEN same @@ [step |-> "skip", outcome |-> Ok("skipped"),
                      files |-> files.val, merged |-> Null]
        ELSE LET mergedData == mergeTrainingData(files.val)
             IN  IF ~mergedData.ok
                 THEN same @@ [step |-> "merge", outcome |-> mergedData,
                               files |-> files.val, merged |-> mergedData]
                 ELSE LET r == trainModel(modelType, mergedData.val)
                      IN  [models |-> r.models, initialized |-> r.initialized,
                           trained |-> r.trained, step |-> "train",
                           constructed |-> r.constructed,
                           files |-> files.val, merged |-> mergedData,
                           outcome |-> r.outcome]

\* The callback's catch with an error that leaves the callback.
catchRethrows(b) == b @@ [propagates |-> ~b.outcome.ok]

\* The callback's catch: the error is logged and the callback resolves.
catch(b) == b @@ [propagates |-> FALSE]

\* A callback whose training waits for work that takes time.
awaitsWorkAlways(b) == b.step = "train" /\ b.trained # {}

\* Whether the callback, having run as b tells, is left waiting for anything
\* but promises that are already settled: it is not, for the files are read
\* with readFileSync, init() awaits nothing and train() of every variant
\* returns a literal.
awaitsWork(b) == FALSE

\* One firing of job j's interval callback.  An error leaving an async
\* callback is an unhandled rejection, which ends the process and with it
\* every timer.  A callback that awaits nothing unsettled runs to its end
\* before the timer can fire again; one that did would stay in flight.
Firing(j, dir) ==
    /\ Idle
    /\ jobs[j].intervalId.id \in timers
    /\ fires[j] < MaxFirings
    /\ \E r \in {catch(firingBody(jobs[j].modelType, dir))} :
           /\ models' = r.models
           /\ initialized' = r.initialized
           /\ timers' = IF r.propagates THEN {} ELSE timers
           /\ fires' = [fires EXCEPT ![j] = @ + 1]
           /\ IF awaitsWork(r)
              THEN /\ tasks' = tasks (+) SetToBag({[kind |-> "firing", h |-> Null,
                                                    job |-> j,
                                                    nth |-> fires[j] + 1]})
                   /\ UNCHANGED ret
              ELSE /\ ret' = [op |-> "firing", job |-> j, nth |-> fires[j] + 1,
                              dir |-> dir, init |-> initialized,
                              cancelled |-> cancelled[j], step |-> r.step,
                              trained |-> r.trained,
                              propagates |-> r.propagates,
                              files |-> r.files, merged |-> r.merged,
                              registered |-> DOMAIN models,
                              constructed |-> r.constructed,
                              outcome |-> r.outcome]
                   /\ UNCHANGED tasks
    /\ UNCHANGED <<jobs, cancelled, config, focus, fans, rlVars>>

Fire == \E j \in 1..Len(jobs) : \E dir \in DirChoices : Firing(j, dir)

(***************************************************************************)
(* The route POST /api/generate/:model behind the rate limiter.            *)
(***************************************************************************)
ErrTooMany == "Terlalu banyak permintaan, coba lagi nanti"
ErrPrompt == "Prompt diperlukan"
ErrGenerateNotFunction == "TypeError: modelInstance.generate is not a function"

\* The :model parameters clients send.
RouteModels == { <<"A","L","L">>, <<"G","p","t","J">>, <<"g","p","t","4">> }

\* A limiter that goes on to the route after it answered 429.
callsNextAlways(reject) == TRUE

\* The limiter calls next() only when it does not reject: a rejection returns
\* the 429 response.
callsNext(reject) == ~reject

\* What the route returns at once, without a call on a handle.
routeReturn(model, reply) ==
    [op |-> "POST /api/generate/:model", arg |-> model, reply |-> reply]

routeError(code, message) ==
    [code |-> code, status |-> "error", message |-> message]

\* if (!modelManager.initialized) await modelManager.init()
ensureInit ==
    IF ~needsInit
    THEN [models |-> models, initialized |-> TRUE, built |-> {},
          outcome |-> Ok("true")]
    ELSE initOf(models)

\* The handler of the route up to its first await on backend I/O: the prompt
\* check, the registry's initialization if needed, then generateFromAllModels
\* or getModel(model).generate(prompt).
generateRoute(model, hasPrompt) ==
    IF ~hasPrompt
    THEN /\ ret' = routeReturn(model, routeError(400, ErrPrompt))
         /\ UNCHANGED <<initialized, models, tasks, fans>>
    ELSE LET i == ensureInit
             key == Str(toLowerCase(model))
         IN  /\ initialized' = i.initialized
             /\ IF ~i.outcome.ok
                THEN /\ models' = i.models
                     /\ ret' = routeReturn(model, routeError(500, i.outcome.val))
                     /\ UNCHANGED <<tasks, fans>>
                ELSE IF isAll(model)
                THEN LET f == fanOutOn(i.models, "generate", TRUE)
                     IN  /\ models' = f.models
                         /\ UNCHANGED tasks
                         /\ IF promiseAll(f.fr.pending)
                            THEN /\ ret' = aggregate(f.fr) @@ [last |-> Null]
                                 /\ UNCHANGED fans
                            ELSE /\ BagCardinality(fans) < MaxFanouts
                                 /\ Suspended + Cardinality(DOMAIN f.fr.pending)
                                      <= MaxTasks
                                 /\ fans' = fans (+) SetToBag({f.fr})
                                 /\ UNCHANGED ret
                ELSE IF key \notin DOMAIN i.models
                THEN /\ models' = i.models
                     /\ ret' = routeReturn(model,
                                  IF key \in ObjectPrototypeKeys
                                  THEN routeError(500, ErrGenerateNotFunction)
                                  ELSE routeError(404, ErrNotFound))
                     /\ UNCHANGED <<tasks, fans>>
                ELSE LET r == syncCall("generate", i.models[key], key,
                                       existsSync(key))
                     IN  /\ models' = [i.models EXCEPT ![key] = r.handle]
                         /\ UNCHANGED fans
                         /\ IF r.done
                            THEN /\ ret' = returned("generate", key, r.outcome,
                                                   i.models[key].isLoaded, r.work,
                                                   r.handle, r.wrote)
                                             @@ [before |-> i.models[key],
                                                 reply |-> routeReply("generate",
                                                              key, r.outcome)]
                                 /\ UNCHANGED tasks
                            ELSE /\ Suspended < MaxTasks
                                 /\ tasks' = tasks (+) SetToBag({r.task})
                                 /\ UNCHANGED ret

\* A request POST /api/generate/:model of client ip: the limiter's middleware,
\* then, when the limiter calls next(), the handler.
PostGenerate(ip, model, hasPrompt) ==
    /\ Idle
    /\ rlDecide(ip)
    /\ IF callsNext(rlReject(ip))
       THEN generateRoute(model, hasPrompt)
       ELSE /\ ret' = routeReturn(model, routeError(429, ErrTooMany))
            /\ UNCHANGED <<initialized, models, tasks, fans>>
    /\ UNCHANGED <<now, config, focus, trVars>>

Request ==
    \E ip \in Keys : \E model \in RouteModels : \E hasPrompt \in BOOLEAN :
        PostGenerate(ip, model, hasPrompt)

(***************************************************************************)
(* Specifications.                                                         *)
(***************************************************************************)
\* config.models.<name>: an object whose path names a model file ("ok") or
\* nothing ("nofile"), an object without a path ("nopath"), or undefined.
ConfigChoices == [Names -> {"ok", "nofile", "nopath", "undef"}]

InitRegistry ==
    /\ config \in ConfigChoices
    /\ initialized = FALSE
    /\ models = <<>>
    /\ focus \in Names
    /\ tasks = EmptyBag
    /\ fans = EmptyBag
    /\ ret = NoCall

InitLimiter ==
    /\ requests = <<>>
    /\ now = 0
    /\ admitted = [k \in Keys |-> <<>>]
    /\ rejectedSince = [k \in Keys |-> FALSE]
    /\ decision = NoDecision

InitTrainer ==
    /\ timers = {}
    /\ jobs = <<>>
    /\ fires = <<>>
    /\ cancelled = <<>>

Init == InitLimiter /\ InitRegistry /\ InitTrainer

\* The registry with the callers of its own methods only: no caller holds a
\* handle.  A configuration without a path differs from one whose path names
\* no file in the constructor only (existsSync(undefined) is false); it is
\* left to the calls on one handle.
InitManager ==
    /\ Init
    /\ focus = Order[1]
    /\ \A n \in Names : config[n] # "nopath"

\* The limiter in front of a registry with the repository's configuration.
InitServer == InitManager /\ config = [n \in Names |-> "ok"]

NextLimiter == Admit \/ Tick

SpecLimiter == InitServer /\ [][NextLimiter]_vars

\* The public methods of ModelManager under concurrent callers.
Next ==
    \/ init
    \/ GetModel
    \/ GetAllModels
    \/ GetModelInfo
    \/ GenerateFromAllModels
    \/ LoadAllModels
    \/ UnloadAllModels
    \/ BranchSettles
    \/ Respond

Spec == InitManager /\ [][Next]_vars

\* The capabilities of one handle, of any variant, under concurrent callers.
NextHandle ==
    \/ init
    \/ Load
    \/ Generate
    \/ Unload
    \/ Train
    \/ Evaluate
    \/ Save
    \/ BackendSettles
    \/ Respond

SpecHandle == Init /\ [][NextHandle]_vars

\* generate() of one handle, of any variant, with the options callers pass.
NextOptions ==
    \/ init
    \/ GenerateOptions
    \/ BackendSettles
    \/ Respond

SpecOptions == Init /\ [][NextOptions]_vars

\* The API server within one window of the limiter (the clock stands still):
\* requests to the generate route behind the limiter, the backend I/O they
\* start, and startServer's init().
NextServer ==
    \/ init
    \/ Request
    \/ BranchSettles
    \/ BackendSettles
    \/ Respond

\* The server when one client has already used up its window (max requests
\* without a prompt at time 0, answered 400 before the registry is looked at)
\* and the other has sent nothing yet.
Saturated == Keys \ {"clientA"}

InitRoute ==
    /\ InitRegistry
    /\ InitTrainer
    /\ focus = Order[1]
    /\ config = [n \in Names |-> "ok"]
    /\ now = 0
    /\ requests = [k \in Saturated |-> [i \in 1..max |-> 0]]
    /\ admitted = [k \in Keys |-> IF k \in Saturated
                                  THEN [i \in 1..max |-> 0] ELSE <<>>]
    /\ rejectedSince = [k \in Keys |-> FALSE]
    /\ decision = NoDecision

SpecServer == InitRoute /\ [][NextServer]_vars

\* Training never reads a model file: every configured path names a file.
InitTraining == InitManager /\ \A n \in Names : config[n] # "nofile"

\* The trainer as the CLI and a scheduling caller use it: trainModel,
\* schedulePeriodicTraining, cancelPeriodicTraining and the timer's firings.
NextTrainer ==
    \/ init
    \/ TrainModel
    \/ Schedule
    \/ Cancel
    \/ Fire
    \/ Respond

SpecTrainer == InitTraining /\ [][NextTrainer]_vars

\* Several scheduled jobs side by side, on a registry with the repository's
\* configuration.
NextJobs ==
    \/ ScheduleAll
    \/ Cancel
    \/ Fire
    \/ Respond

SpecJobs == InitServer /\ [][NextJobs]_vars

\* The calls that act on every registered handle, as the API's generate
\* route and the trainer make them: generateFromAllModels and trainModel
\* (with the selector 'all' among its inputs), and the lookup of one handle.
NextDispatch ==
    \/ init
    \/ GetModel
    \/ GenerateFromAllModels
    \/ TrainModel
    \/ BranchSettles
    \/ Respond

SpecDispatch == InitTraining /\ [][NextDispatch]_vars

(***************************************************************************)
(* Claims about the rate limiter.                                          *)
(***************************************************************************)
\* Number of entries of list that lie in the closed window [t - windowMs, t].
InClosedWindow(list, t) ==
    Cardinality({i \in 1..Len(list) : t - windowMs <= list[i] /\ list[i] <= t})

\* Number of entries of list less than windowMs old at time t.
InSameWindow(list, t) ==
    Cardinality({i \in 1..Len(list) : t - list[i] < windowMs})

\* C2: for every client key the number of recorded timestamps in the closed
\* window [now - windowMs, now] is at most max at all times, and a call made
\* when max calls were already admitted in the same window is rejected.
C2_RateLimitBound ==
    /\ \A k \in DOMAIN requests : InClosedWindow(requests[k], now) <= max
    /\ decision.made /\ InSameWindow(decision.hist, decision.at) >= max
         => ~decision.admit

\* C2 witness: max back-to-back calls at one instant were admitted and the next
\* call at the same instant was rejected.
C2_Witness ==
    /\ decision.made /\ ~decision.admit
    /\ Len(decision.hist) = max
    /\ \A i \in 1..Len(decision.hist) : decision.hist[i] = decision.at
    /\ InClosedWindow(requests[decision.key], now) = max

\* C3: a call made at least windowMs after the key's last admitted call is
\* admitted, whatever was rejected in between.
C3_Recovery ==
    (decision.made /\ decision.hist # <<>>
       /\ decision.at - decision.hist[Len(decision.hist)] >= windowMs)
      => decision.admit

\* C3 witness: the key had max admitted calls in one window, was rejected
\* afterwards, and is admitted exactly windowMs after its last admitted call.
C3_Witness ==
    /\ decision.made /\ decision.admit /\ decision.rejSince
    /\ Len(decision.hist) >= max
    /\ InSameWindow(decision.hist, decision.hist[Len(decision.hist)]) >= max
    /\ decision.at - decision.hist[Len(decision.hist)] = windowMs


\* The number of times timestamp t is stored in list.
Occurrences(list, t) == Cardinality({i \in 1..Len(list) : list[i] = t})

\* C19: a rejected call stores no timestamp, so the timestamps of its key
\* that any later decision counts are those stored before it; an admitted
\* call stores exactly one, equal to the time of the call.  Neither touches
\* another key's timestamps.
C19_OnlyAdmittedCallsAreRecorded ==
    [][now' = now =>
         LET ip == decision'.key
             before == rlStored(ip)
             after == requests'[ip]
         IN  /\ \A k \in DOMAIN requests \ {ip} : requests'[k] = requests[k]
             /\ ~decision'.admit => after = before
             /\ decision'.admit =>
                  /\ Occurrences(after, now) = Occurrences(before, now) + 1
                  /\ Len(after) = Len(rlFilter(before, now)) + 1
                  /\ \A t \in 0..MaxTime :
                       (t # now /\ now - t < windowMs)
                         => Occurrences(after, t) = Occurrences(before, t)]_vars

\* A call is rejected at a time at which no call of its key was admitted:
\* the key's stored timestamps do not include the time of the rejected call.
C19_Witness ==
    /\ decision.made /\ ~decision.admit
    /\ decision.at = now
    /\ decision.hist # <<>>
    /\ \A i \in 1..Len(decision.hist) : decision.hist[i] < now
    /\ Occurrences(requests[decision.key], now) = 0
    /\ Len(requests[decision.key]) >= max

(***************************************************************************)
(* Claims about the aggregate calls and the registry (under Spec).         *)
(***************************************************************************)
AllOps == {AllOp(op) : op \in FanOps}

\* The aggregate call that just returned replied with a result object.
AggregateReturned == ret.op \in AllOps /\ ret.outcome.ok

\* C1: an aggregate call on an initialized registry resolves whatever subset
\* of its branches failed; every handle's capability was invoked and has an
\* entry under its own name, which is the handle's own success value when its
\* branch succeeded and the error of its own branch when it failed.
C1_IsolatedPartialFailure ==
    (ret.op \in AllOps /\ ret.init) =>
        /\ ret.outcome.ok
        /\ DOMAIN ret.out = ret.names
        /\ DOMAIN ret.outcome.val = ret.names
        /\ \A n \in ret.names :
             /\ ret.out[n].ok /\ ret.op = "generateFromAllModels"
                  => ret.outcome.val[n] = ret.out[n].val
             /\ ret.out[n].ok /\ ret.op # "generateFromAllModels"
                  => ret.outcome.val[n] = "success"
             /\ ~ret.out[n].ok
                  => ret.outcome.val[n] = "ERROR: " \o ret.out[n].val

\* C1 witness: an aggregate call over three handles returned with the branch
\* of one handle failed in its backend and the branch of another succeeded.
C1_Witness ==
    /\ AggregateReturned
    /\ Cardinality(ret.names) = 3
    /\ \E n \in ret.names : \E m \in ret.names :
         /\ ~ret.out[n].ok /\ ret.out[n].val \in {ErrBackendInit, ErrBackendGen}
         /\ ret.out[m].ok
         /\ ret.outcome.val[m] \in {"success"} \cup Texts(m)

\* C8 (as the specification states it): getModel of a name that, lower-cased,
\* is not a registered handle name fails with the not-found error.
C8_UnregisteredNotFound ==
    (ret.op = "getModel" /\ ret.init
       /\ Str(toLowerCase(ret.arg)) \notin ret.registered)
      => ret.outcome = Err(ErrNotFound)

\* The operations of the registry other than init.
GuardedOps == {"getModel", "getAllModels", "getModelInfo"} \cup AllOps

\* C9: a registry operation other than init called while initialized = false
\* returns the not-initialized error in the same step, and that step leaves
\* the registry, the handles and the suspended calls as they were.
C9_FailFastUninitialized ==
    [][(~initialized /\ ret = NoCall /\ ret' # NoCall /\ ret'.op \in GuardedOps)
         => /\ ret'.outcome = Err(ErrNotInit)
            /\ UNCHANGED <<config, initialized, models, tasks, fans>>]_vars

\* C9 witness: after an init() that failed half way (a handle is registered,
\* initialized is false) an aggregate call returned the not-initialized error.
C9_Witness ==
    /\ ret.op \in AllOps
    /\ ~initialized /\ DOMAIN models # {}
    /\ ret.outcome = Err(ErrNotInit)
    /\ \A n \in DOMAIN models : models[n] = NewHandle

\* C10: an aggregate call fails exactly when the registry was uninitialized or
\* its handle set was empty when the call was made.
C10_AggregateFailsOnlyIf ==
    ret.op \in AllOps =>
        (~ret.outcome.ok <=> (~ret.init \/ ret.names = {}))

\* C10 witness: an aggregate call made on the empty handle set failed.
C10_Witness ==
    /\ ret.op \in AllOps
    /\ ret.names = {}
    /\ ~ret.outcome.ok

(***************************************************************************)
(* Claims about one handle (under SpecHandle).                             *)
(***************************************************************************)
\* The load transitions of handle h in flight.
LoadsInFlight(h) == {t \in BagToSet(tasks) : t.h = h /\ t.kind = "load"}

\* C4 (as the specification states it): at most one load transition of a
\* handle is in flight at any time.
C4_NoConcurrentDoubleLoad ==
    \A h \in Names :
        \A t \in LoadsInFlight(h) :
            /\ CopiesIn(t, tasks) = 1
            /\ LoadsInFlight(h) = {t}

\* C5 (as the specification states it): load() on a Loaded handle succeeds,
\* leaves the handle Loaded and does not assign its backend reference.
C5_LoadOnLoadedIsNoOp ==
    (ret.op = "load" /\ ret.preLoaded)
      => (ret.outcome.ok /\ ret.postLoaded /\ ~ret.wrote)

\* C6: unload() on a handle that is not loaded returns true and leaves the
\* handle not loaded and its backend reference untouched; and on any handle a
\* second unload() in a row returns true and changes nothing.
C6_UnloadIdempotent ==
    /\ (ret.op = "unload" /\ ~ret.preLoaded)
         => (ret.outcome = Ok("true") /\ ~ret.postLoaded /\ ~ret.wrote)
    /\ \A h \in DOMAIN models :
         LET once == unload(models[h])
             twice == unload(once.handle)
         IN  /\ twice.handle = once.handle
             /\ twice.outcome = Ok("true")
             /\ ~twice.wrote
             /\ ~models[h].isLoaded => once.handle = models[h]

\* C6 witness: unload() returned on a handle that was not loaded and still
\* holds the backend object of a load that failed.
C6_Witness ==
    /\ ret.op = "unload" /\ ~ret.preLoaded
    /\ ret.outcome.ok
    /\ models[ret.h] = [isLoaded |-> FALSE, ref |-> Instance]

\* C7 (as the specification states it): generate, train, evaluate and save do
\* their work only on a handle that is loaded when the work runs.
C7_LoadedStateGate ==
    (ret.op \in {"generate", "train", "evaluate", "save"} /\ ret.outcome.ok)
      => ret.work


(***************************************************************************)
(* Periodic training.                                                      *)
(***************************************************************************)
\* C11 as stated: once cancelPeriodicTraining has returned for a job, given
\* the value schedulePeriodicTraining returned for it, no firing of that job
\* begins.
C11_NoFiringAfterCancel == ret.op = "firing" => ret.cancelled = {}

\* C11: once cancelPeriodicTraining has returned for a job, given the
\* intervalId member of the value schedulePeriodicTraining returned, the
\* job's timer is inactive and no firing of the job begins.
C11_NoFiringAfterCancelById ==
    /\ \A j \in 1..Len(jobs) :
         "Timeout" \in cancelled[j] => jobs[j].intervalId.id \notin timers
    /\ ret.op = "firing" => "Timeout" \notin ret.cancelled

\* A job that has fired once and could fire again is cancelled by intervalId.
C11_Witness ==
    /\ ret.op = "cancelPeriodicTraining"
    /\ ret.arg.kind = "Timeout"
    /\ fires[ret.job] \in 1..(MaxFirings - 1)
    /\ cancelled[ret.job] = {"Timeout"}

\* The steps of a firing that can fail.
FiringSteps == {"discover", "merge", "train"}

\* C12: a firing that fails, at whatever step, keeps the failure inside the
\* callback: nothing leaves it and the job's timer stays active.
C12_FiringFailureIsCaught ==
    (ret.op = "firing" /\ ~ret.outcome.ok) =>
        /\ ret.step \in FiringSteps
        /\ ~ret.propagates
        /\ jobs[ret.job].intervalId.id \in timers

\* A firing fails in trainModel because the registry cannot be initialized.
C12_Witness ==
    /\ ret.op = "firing"
    /\ ret.step = "train"
    /\ ret.outcome = Err(ErrConfig)
    /\ jobs[ret.job].intervalId.id \in timers


\* The data directory can be read and holds no .json file.
NoTrainingData(dir) ==
    dir.readable /\ \A i \in 1..Len(dir.entries) : ~dir.entries[i].json

\* C13: a firing that finds no training-data file skips: it ends without an
\* error, invokes train on no handle, does not initialize the registry and
\* leaves registry, handles and jobs as they were.
C13_EmptyFiringSkips ==
    [][(ret = NoCall /\ ret'.op = "firing" /\ NoTrainingData(ret'.dir)) =>
          /\ ret'.outcome = Ok("skipped")
          /\ ret'.trained = {}
          /\ UNCHANGED <<initialized, models, config, tasks, fans,
                         timers, jobs, cancelled>>]_vars

\* The second firing of a job skips on a directory without .json files, the
\* registry still uninitialized although its configuration is complete.
C13_Witness ==
    /\ ret.op = "firing"
    /\ ret.nth = 2
    /\ NoTrainingData(ret.dir)
    /\ ret.dir.entries # <<>>
    /\ ret.outcome = Ok("skipped")
    /\ ~initialized
    /\ \A n \in Names : config[n] = "ok"
    /\ jobs[ret.job].intervalId.id \in timers


\* C14: trainModel('all', data) on an initialized registry invokes train on
\* every registered handle and resolves with one entry per handle, whatever
\* fails for one of them.
C14_TrainAllIsolatesFailure ==
    (ret.op = "trainModel" /\ isAll(ret.arg) /\ initialized) =>
        /\ ret.trained = ret.names
        /\ ret.outcome.ok
        /\ DOMAIN ret.outcome.val = ret.names


(***************************************************************************)
(* Aggregate calls, continued.                                             *)
(***************************************************************************)
\* C15: the keys of the map an aggregate call resolves with are the names of
\* the handles registered when it was dispatched, in whatever order the
\* branches completed and whichever of them failed.
C15_ResultKeysAreRegisteredNames ==
    (ret.op \in AllOps /\ ret.outcome.ok) =>
        /\ ret.outcome.val \in [ret.names -> STRING]
        /\ DOMAIN ret.outcome.val = ret.names

\* loadAllModels over three handles returns when the branch of the handle
\* dispatched first settles last, after the two others failed in the backend.
C15_Witness ==
    /\ ret.op = "loadAllModels"
    /\ ret.outcome.ok
    /\ ret.names = Names
    /\ ret.last = Order[1]
    /\ ret.out[Order[1]].ok
    /\ \A n \in Names \ {Order[1]} : ret.out[n] = Err(ErrBackendInit)


(***************************************************************************)
(* Handles, continued.                                                     *)
(***************************************************************************)
\* C16: a load() that fails returns its error (the missing path or the
\* backend's failure) and leaves the handle not loaded; a load() that
\* succeeds, also after an earlier failure, leaves the handle loaded.
C16_FailedLoadRecovers ==
    ret.op = "load" =>
        /\ models[ret.h].isLoaded = ret.postLoaded
        /\ ~ret.outcome.ok =>
             ~ret.postLoaded /\ ret.outcome.val \in {ErrPath, ErrBackendInit}
        /\ ret.outcome.ok => ret.postLoaded

\* load() succeeds on a Mistral or GPT-J handle that was not loaded and still
\* held the backend object of an earlier load: only a load that failed on a
\* loaded handle leaves such a handle.
C16_Witness ==
    /\ ret.op = "load"
    /\ ret.h # "llama"
    /\ ret.outcome.ok
    /\ ret.before = [isLoaded |-> FALSE, ref |-> Instance]
    /\ ~ret.preLoaded
    /\ models[ret.h].isLoaded


\* No call on a handle is suspended on backend I/O.
Quiescent == tasks = EmptyBag /\ fans = EmptyBag

\* C17 (as the specification states it): when unload() returns successfully
\* the handle is not loaded and its backend reference is null; and whenever
\* no call is in flight, a handle that is not loaded holds no backend object.
C17_NotLoadedOwnsNoBackend ==
    Quiescent =>
        /\ (ret.op = "unload" /\ ret.outcome.ok)
             => models[ret.h] = [isLoaded |-> FALSE, ref |-> Null]
        /\ \A h \in DOMAIN models : ~models[h].isLoaded => models[h].ref = Null


\* A step of a generate() call made on a loaded handle: the call suspends on
\* the backend (its task appears), or it returns.
GenerateOnLoadedSteps ==
    \/ \E t \in BagToSet(tasks') :
         /\ t.kind = "generate" /\ t.preLoaded
         /\ CopiesIn(t, tasks') > CopiesIn(t, tasks)
    \/ ret = NoCall /\ ret'.op = "generate" /\ ret'.preLoaded

\* C18: no step of a generate() call made on a loaded handle changes a
\* handle's load state or backend reference; the call returns the text or
\* the error of the generation.
C18_GenerateKeepsLoadState ==
    [][GenerateOnLoadedSteps =>
          /\ models' = models
          /\ ret'.op = "generate" =>
               ret'.outcome \in {Ok(text) : text \in Texts(ret'.h)}
                                  \cup {Err(ErrBackendGen), Err(ErrBackendNull)}]_vars

\* generate() on a loaded handle failed in the backend; the handle is loaded
\* and holds the backend object it held.
C18_Witness ==
    /\ ret.op = "generate"
    /\ ret.preLoaded
    /\ ret.outcome = Err(ErrBackendGen)
    /\ ret.before = [isLoaded |-> TRUE, ref |-> Instance]
    /\ models[ret.h] = ret.before


\* The calls a route makes on one handle.
RouteOps == {"generate", "load", "unload"}

HandleErrors == {ErrPath, ErrBackendInit, ErrBackendGen, ErrBackendNull}

\* What a caller can tell from an entry of the result map: the entry reads
\* 'ERROR: <message>'.
readsAsError(entry) == entry \in {"ERROR: " \o m : m \in HandleErrors}

\* C21 (as the specification states it): an aggregate call throws only when
\* the registry is not initialized, and in the map it returns an entry reads
\* as an error exactly when the branch of its handle failed.
C21_FailureShapesDistinct ==
    ret.op \in AllOps =>
        /\ ~ret.outcome.ok => (~ret.init /\ ret.outcome = Err(ErrNotInit))
        /\ ret.outcome.ok =>
             \A n \in DOMAIN ret.outcome.val :
                 readsAsError(ret.outcome.val[n]) <=> ~ret.out[n].ok


(***************************************************************************)
(* Initialization of the registry.                                         *)
(***************************************************************************)
\* The calls that may run init(): init() itself, trainModel, a firing.
InitCallers == {"init", "trainModel", "firing"}

HasPath(n) == config[n] \in {"ok", "nofile"}

\* C23 (as the specification states it): init() fails, and leaves
\* initialized false, when the configuration of a backend lacks its path;
\* otherwise it registers one unloaded handle per backend and sets initialized.
C23_InitValidatesConfiguration ==
    ret.op = "init" =>
        IF \A n \in Names : HasPath(n)
        THEN /\ ret.outcome.ok
             /\ initialized
             /\ models = [n \in Names |-> NewHandle]
        ELSE ~ret.outcome.ok /\ ~initialized


\* The handler of the generate route ran in this step: it initialized the
\* registry, answered from the registry (400, 404, 500), started backend I/O,
\* or invoked generate() on a handle that answered without I/O.
RouteOp == "POST /api/generate/:model"

HandlerRan ==
    \/ initialized' # initialized /\ ret'.op # "init"
    \/ Suspended' > Suspended
    \/ /\ ret = NoCall
       /\ ret'.op = RouteOp
       /\ ret'.reply.code # 429
    \/ /\ ret = NoCall
       /\ ret'.op = "generate"
       /\ tasks' = tasks
       /\ fans' = fans

RejectedNow ==
    /\ ret = NoCall
    /\ ret'.op = RouteOp
    /\ ret'.reply.code = 429

\* C24: on the generate path admission precedes dispatch.  A step in which
\* the handler initializes the registry, resolves a handle, starts a load or
\* invokes generate is a step in which the limiter admitted the request and
\* recorded it for the request's client key; a step that answers 429 leaves
\* the registry, the handles and the backend work as they were and records
\* nothing.
C24_AdmissionPrecedesDispatch ==
    [][ /\ HandlerRan =>
            /\ decision'.made
            /\ decision'.admit
            /\ admitted'[decision'.key] = Append(admitted[decision'.key], now)
            /\ \A k \in Keys \ {decision'.key} : admitted'[k] = admitted[k]
        /\ RejectedNow =>
            /\ UNCHANGED <<initialized, models, tasks, fans>>
            /\ ~decision'.admit
            /\ admitted' = admitted ]_vars

\* A client that was admitted max times, whose backend work is still in
\* flight, is answered 429.
C24_Witness ==
    /\ ret.op = RouteOp
    /\ ret.reply.code = 429
    /\ decision.key = "clientA"
    /\ Len(admitted["clientA"]) = max
    /\ Suspended > 0
    /\ initialized


\* C25: the limiter's read-prune-append sequence is atomic per decision.  A
\* decision that admits a request of key k stores the pruned list it read
\* with this request appended, so the next decision for k reads a different
\* list; when exactly one slot remained, a further request of k at the same
\* moment is rejected.
C25_DecisionsAreSerialized ==
    [][ \A k \in Keys :
          admitted'[k] # admitted[k] =>
            /\ decision'.key = k
            /\ decision'.admit
            /\ requests'[k] = Append(rlFilter(rlStored(k), now), now)
            /\ requests'[k] # rlStored(k)
            /\ Len(rlFilter(rlStored(k), now)) = max - 1 => rlReject(k)' ]_vars

\* Of the requests of one key arriving at the same moment with one slot left,
\* one took the slot and the next one was rejected.
C25_Witness ==
    /\ decision.made
    /\ ~decision.admit
    /\ decision.at = now
    /\ Len(decision.hist) >= max
    /\ decision.hist[Len(decision.hist)] = now
    /\ Len(rlFilter(rlStored(decision.key), now)) = max


\* C26: unload() called while a load() of the same handle (explicit, or the
\* implicit one of generate()) was in flight is not lost: when that load
\* has settled successfully the handle is not loaded and owns no backend
\* instance.
C26_RacingUnloadIsNotLost ==
    (/\ ret.op \in {"load", "generate"}
     /\ "raced" \in DOMAIN ret
     /\ ret.raced
     /\ ret.outcome.ok)
        => /\ ~ret.postLoaded
           /\ models[ret.h].ref = Null


\* Every handle the aggregate call fr found registered has had its capability
\* called: its branch is pending or has produced its outcome.
AllStarted(fr) == DOMAIN fr.pending \cup DOMAIN fr.out = fr.names

\* In the list of events ev no call starts after the loop got an earlier
\* call's value.
NoStartAfterSettle(ev) ==
    \A i \in 1..Len(ev) : \A j \in 1..Len(ev) :
        i < j => ~(ev[i][1] = "settle" /\ ev[j][1] = "start")

AggregateReturns == ret = NoCall /\ ret'.op \in AllOps /\ ret'.outcome.ok

\* C28: an aggregate call returns only after every per-handle invocation has
\* settled.  The step in which it returns is the dispatching step when no
\* branch had to be awaited, and otherwise the step in which the call's last
\* pending branch settles; the map it returns has an entry for every
\* registered handle, the entries written before that step are unchanged, the
\* call's record is gone, and nothing touches the returned object before the
\* caller takes it.
C28_JoinPoint ==
    [][ /\ AggregateReturns =>
            /\ DOMAIN ret'.outcome.val = ret'.names
            /\ DOMAIN ret'.out = ret'.names
            /\ \/ ret'.last = Null /\ fans' = fans
               \/ \E fr \in BagToSet(fans) :
                    /\ DOMAIN fr.pending = {ret'.last}
                    /\ fans' = fans (-) SetToBag({fr})
                    /\ \A n \in fr.names \ {ret'.last} :
                         /\ n \in DOMAIN fr.out
                         /\ ret'.out[n] = fr.out[n]
                         /\ ret'.outcome.val[n] = fr.results[n]
        /\ (ret.op \in AllOps /\ ret' # NoCall) => ret' = ret ]_vars

\* An aggregate call that awaited all three branches has returned, its last
\* branch to settle being the first handle's.
C28_Witness ==
    /\ ret.op \in AllOps
    /\ ret.outcome.ok
    /\ ret.last = Order[1]
    /\ Cardinality(ret.names) = 3
    /\ \E n \in ret.names : ~ret.out[n].ok


\* How the registered names and the selector 'all' are spelled.
Spelling ==
    [llama |-> <<"l","l","a","m","a">>,
     mistral |-> <<"m","i","s","t","r","a","l">>,
     gptj |-> <<"g","p","t","j">>,
     all |-> <<"a","l","l">>]

\* s spells the word w, in whatever letter case.
Spells(s, w) ==
    /\ Len(s) = Len(Spelling[w])
    /\ \A i \in 1..Len(s) :
         \/ s[i] = Spelling[w][i]
         \/ \E j \in 1..Len(Upper) : Upper[j] = s[i] /\ Lower[j] = Spelling[w][i]

RECURSIVE Before(_, _)
\* The number of examples in the files before the k-th of files.
Before(files, k) ==
    IF k <= 1 THEN 0 ELSE Before(files, k - 1) + Len(files[k - 1].data)

\* merged is the examples of files, file after file, each file's in its order.
IsConcatenation(merged, files) ==
    /\ Len(merged) = Before(files, Len(files) + 1)
    /\ \A k \in 1..Len(files) : \A i \in 1..Len(files[k].data) :
         merged[Before(files, k) + i] = files[k].data[i]

\* A firing got as far as merging the files it found.
Merged == ret.op = "firing" /\ ret.step \in {"merge", "train"}

\* C30: mergeTrainingData(files) returns exactly the concatenation of the
\* files' examples, in the order of the file list and in each file's own
\* order; when a file cannot be read or parsed it fails as a whole, with that
\* error and no sequence.
C30_MergeIsConcatenation ==
    Merged =>
        IF \A k \in 1..Len(ret.files) : ret.files[k].parses
        THEN /\ ret.merged.ok
             /\ IsConcatenation(ret.merged.val, ret.files)
        ELSE /\ ret.merged = Err(ErrParse)
             /\ ret.step = "merge"
             /\ ret.trained = {}

\* A firing merged two files, the second of two examples, into three examples.
C30_Witness ==
    /\ Merged
    /\ Len(ret.files) = 2
    /\ ret.merged.ok
    /\ Len(ret.merged.val) = 3
    /\ ret.merged.val[2] # ret.merged.val[3]


\* The generation settings callers know, and the key under which each
\* variant's defaults name the same setting.
RecognizedKeys == {"temperature", "maxTokens", "topP", "topK", "repetitionPenalty"}

BackendKey(h, k) ==
    IF h # "mistral" THEN k
    ELSE CASE k = "temperature" -> "temperature"
           [] k = "maxTokens" -> "max_new_tokens"
           [] k = "topP" -> "top_p"
           [] k = "topK" -> "top_k"
           [] k = "repetitionPenalty" -> "repetition_penalty"

\* A generate() call that reached its backend has returned.
HandedOptions ==
    ret.op = "generate" /\ "handed" \in DOMAIN ret /\ DOMAIN ret.handed # {}

\* C31: generation options are a shallow merge of defaults and caller
\* options.  For every recognized key and every variant, the setting the
\* backend is handed has the caller's value when the caller supplied one (and
\* that value replaces the default governing the same setting) and the
\* variant's default otherwise.
C31_CallerOptionsReplaceDefaults ==
    HandedOptions =>
        \A k \in RecognizedKeys :
            /\ k \in DOMAIN ret.options => ret.handed[k] = ret.options[k]
            /\ ret.handed[BackendKey(ret.h, k)] =
                  IF k \in DOMAIN ret.options THEN ret.options[k]
                  ELSE defaultOptions(ret.h)[BackendKey(ret.h, k)]


\* C32: training is only ever invoked with a non-empty example sequence.  A
\* trainModel call that invoked train() on a handle was given at least one
\* example, and so was every firing that invoked train(); a firing whose files
\* hold no example invokes no train().
C32_TrainGetsExamples ==
    /\ (ret.op = "trainModel" /\ ret.trained # {}) => Len(ret.data) > 0
    /\ (ret.op = "firing" /\ ret.trained # {}) =>
          ret.merged.ok /\ Len(ret.merged.val) > 0


\* C33: in every reachable state, also in the middle of a load() issued on a
\* loaded handle, a handle whose isLoaded flag is true holds a non-null backend
\* reference; hence a generate() that found isLoaded true is never run
\* against a released backend.
C33_LoadedHoldsBackend ==
    /\ \A h \in DOMAIN models : models[h].isLoaded => models[h].ref # Null
    /\ (ret.op = "generate" /\ ret.preLoaded /\ ret.work)
          => ret.outcome # Err(ErrBackendNull)


\* The firings of job j that have begun and not ended.
FiringsInFlight(j) == {t \in BagToSet(tasks) : t.kind = "firing" /\ t.job = j}

OtherTimers(j) == {jobs[k].intervalId.id : k \in (1..Len(jobs)) \ {j}}

\* Job k is still scheduled: its timer is active.
Scheduled(k) == jobs[k].intervalId.id \in timers

\* C35: scheduled jobs are independent.  A schedule call adds a job with a
\* timer no earlier job has, and leaves the earlier jobs, their timers and
\* their firing counts as they were; a cancel call for job j leaves every
\* other job as scheduled as it was, with its firing count, and removes no
\* job from the list.
C35_JobsAreIndependent ==
    [][/\ Len(jobs') > Len(jobs) =>
             /\ Len(jobs') = Len(jobs) + 1
             /\ SubSeq(jobs', 1, Len(jobs)) = jobs
             /\ SubSeq(fires', 1, Len(jobs)) = fires
             /\ jobs'[Len(jobs')].intervalId.id \notin
                    {jobs[k].intervalId.id : k \in 1..Len(jobs)}
             /\ jobs'[Len(jobs')].intervalId.id \in timers'
             /\ timers \subseteq timers'
       /\ (ret = NoCall /\ ret'.op = "cancelPeriodicTraining") =>
             /\ jobs' = jobs
             /\ fires' = fires
             /\ \A k \in (1..Len(jobs)) \ {ret'.job} :
                    (jobs[k].intervalId.id \in timers')
                        <=> (jobs[k].intervalId.id \in timers)
      ]_vars

\* The second job fires and trains after the first, which had fired, was
\* cancelled with its intervalId.
C35_Witness ==
    /\ Len(jobs) = 2
    /\ ret.op = "firing"
    /\ ret.job = 2
    /\ ret.step = "train"
    /\ fires[1] > 0
    /\ "Timeout" \in cancelled[1]
    /\ ~Scheduled(1)
    /\ Scheduled(2)


\* C36: rate-limiter keys are isolated.  The decision the limiter would make
\* for a key depends on that key's own admitted calls only, and a decision
\* for one key leaves the stored timestamps of every other key, and the
\* decision the limiter would make for it, as they were.
C36_KeysAreIsolated ==
    [][/\ \A B \in Keys :
            rlReject(B)' <=> (InSameWindow(admitted'[B], now') >= max)
       /\ now' = now =>
            \A B \in Keys \ {decision'.key} :
                /\ rlStored(B)' = rlStored(B)
                /\ admitted'[B] = admitted[B]
                /\ rlReject(B)' <=> rlReject(B)
      ]_vars

\* A call of clientB is admitted at a moment at which clientA, whose calls
\* came between clientB's, has used up its window.
C36_Witness ==
    /\ decision.made
    /\ decision.key = "clientB"
    /\ decision.admit
    /\ decision.at = now
    /\ decision.hist # <<>>
    /\ rlReject("clientA")
    /\ ~rlReject("clientB")
    /\ \E i \in 1..Len(admitted["clientA"]) :
           admitted["clientA"][i] >= decision.hist[1]


\* C37 (as the specification states it): an unknown model name and a failed
\* load are answered distinguishably.  The answer to a request naming an
\* unregistered model is 404, and the answer to a request whose call on a
\* registered handle failed because the handle's model path is missing is
\* 500, never 404.
C37_LoadFailureIsNotNotFound ==
    /\ (ret.op = RouteOp /\ ret.reply.status = "error"
          /\ ret.reply.message = ErrNotFound) => ret.reply.code = 404
    /\ (ret.op \in RouteOps /\ ret.outcome = Err(ErrPath))
          => ret.reply.code = 500

=============================================================================
